---- MODULE Spec2Model ----
(***************************************************************************)
(* Model of satpy/readers/viirs_edr.py: the VIIRS JRR file handler         *)
(* (VIIRSJRRFileHandler) and its surface-reflectance specialisation        *)
(* (VIIRSSurfaceReflectanceWithVIHandler).                                 *)
(*                                                                         *)
(* A dataset (xarray.Dataset) is a function from variable names to         *)
(* variable records; a variable record carries its dimension names, its    *)
(* values (a sequence of rows), its attrs and its encoding fill value.     *)
(* Python None is the string None, a missing dict key is the string        *)
(* Absent, and an optional number is a sequence of length 0 or 1.          *)
(* A floating-point NaN (a masked element) is the integer NaN.             *)
(***************************************************************************)
EXTENDS Integers, Sequences, FiniteSets, TLC

VARIABLES
    pc,             \* "new" before __init__, "open" after it, "failed" if it raised
    klass,          \* the handler class that is constructed
    filename_info,  \* [platform_shortname, start_time, end_time]
    filetype_info,  \* [file_type]
    file,           \* the NetCDF file on disk as xr.open_dataset decodes it
    nc,             \* self.nc, the handler's dataset
    op,             \* the last operation called on the handler and its outcome
    calls,          \* number of get_dataset calls made so far
    reported        \* descriptors available_datasets has reported as True

vars == <<pc, klass, filename_info, filetype_info, file, nc, op, calls, reported>>

---------------------------------------------------------------------------
(* Bounds of the model *)

\* longest configured_datasets sequence handed to available_datasets
MaxCfg == 2
\* most get_dataset calls on one handler
MaxCalls == 2
\* largest value of a quality flag that is swept
MaxQF == 255
\* rows and columns of the coarse (750 m) grid of the quality flags
GridH == 1
GridW == 2

---------------------------------------------------------------------------
(* Python values *)

None == "<None>"
Absent == "<absent>"
NaN == -1000000

BASE == "VIIRSJRRFileHandler"
SR == "VIIRSSurfaceReflectanceWithVIHandler"

Range(s) == {s[i] : i \in DOMAIN s}

\* IEEE comparisons: every ordered comparison with NaN is false, != is true
Le(a, b) == a # NaN /\ b # NaN /\ a <= b
Ne(a, b) == a = NaN \/ b = NaN \/ a # b
Mul(a, k) == IF a = NaN THEN NaN ELSE a * k

\* np.isnan of an encoded fill value
IsNan(f) == f = NaN

\* elementwise map over an array (a sequence of rows)
MapArr(arr, F(_)) == [r \in DOMAIN arr |-> [c \in DOMAIN arr[r] |-> F(arr[r][c])]]

Shape(arr) == <<Len(arr), IF Len(arr) = 0 THEN 0 ELSE Len(arr[1])>>

\* xarray.DataArray.where(cond): keep the element where cond is true, NaN elsewhere
Where(arr, cond) ==
    [r \in DOMAIN arr |-> [c \in DOMAIN arr[r] |-> IF cond[r][c] THEN arr[r][c] ELSE NaN]]

---------------------------------------------------------------------------
(* Strings that the code takes apart are sequences of one-character strings *)

UpperChar(ch) ==
    CASE ch = "n" -> "N" [] ch = "p" -> "P" [] ch = "j" -> "J"
      [] ch = "s" -> "S" [] ch = "g" -> "G" [] OTHER -> ch

\* str.upper()
Upper(s) == [i \in DOMAIN s |-> UpperChar(s[i])]

RECURSIVE SplitFrom(_, _, _)
\* str.split(' '): cur is the token being read, i the next position
SplitFrom(s, i, cur) ==
    IF i > Len(s) THEN <<cur>>
    ELSE IF s[i] = " " THEN <<cur>> \o SplitFrom(s, i + 1, <<>>)
    ELSE SplitFrom(s, i + 1, Append(cur, s[i]))

Split(s) == SplitFrom(s, 1, <<>>)

---------------------------------------------------------------------------
(* Datasets *)

\* attrs["flag_meanings"]: missing, a str (val holds the one string) or a list of str
NoFlags == [kind |-> "absent", val |-> <<>>]
FlagStr(s) == [kind |-> "str", val |-> <<s>>]
FlagList(l) == [kind |-> "list", val |-> l]

\* mask_and_scale=True: the elements equal to the encoded fill value are read as NaN
Decoded(values, fill) ==
    IF fill = <<>> \/ IsNan(fill[1]) THEN values
    ELSE MapArr(values, LAMBDA v : IF v = fill[1] THEN NaN ELSE v)

\* a variable of a dataset as xr.open_dataset(decode_cf, mask_and_scale) returns it
Variable(dims, values, units, valid_range, fill, flags) ==
    [dims |-> dims, values |-> Decoded(values, fill), units |-> units, standard_name |-> Absent,
     flag_meanings |-> flags, valid_range |-> valid_range, platform_name |-> Absent,
     sensor |-> Absent, rows_per_scan |-> <<>>, FillValue |-> fill]

NoDataset == [v \in {} |-> Absent]

\* Dataset.dims: the names of the dimensions of all variables
Dims(ds) == UNION {Range(ds[v].dims) : v \in DOMAIN ds}

\* Dataset.rename(name_dict) raises ValueError for a key that names nothing in the dataset
RenameOk(ds, name_dict) == DOMAIN name_dict \subseteq (Dims(ds) \cup DOMAIN ds)

\* Dataset.rename(name_dict) on dimension names (no variable of these files is
\* named like a dimension); a new name that already exists is accepted
Rename(ds, name_dict) ==
    [v \in DOMAIN ds |->
        [ds[v] EXCEPT !.dims = [i \in DOMAIN @ |->
            IF @[i] \in DOMAIN name_dict THEN name_dict[@[i]] ELSE @[i]]]]

\* lines 78-82: the dimension renaming of __init__; err is the exception raised, if any
RenameDims(ds) ==
    IF "columns" \in Dims(ds)
    THEN LET d == ("Columns" :> "x") @@ ("Rows" :> "y")
         IN IF RenameOk(ds, d) THEN [err |-> None, ds |-> Rename(ds, d)]
            ELSE [err |-> "ValueError", ds |-> ds]
    ELSE IF "Along_Track_375m" \in Dims(ds)
    THEN LET d1 == ("Along_Scan_375m" :> "x") @@ ("Along_Track_375m" :> "y")
             d2 == ("Along_Scan_750m" :> "x") @@ ("Along_Track_750m" :> "y")
         IN IF ~RenameOk(ds, d1) THEN [err |-> "ValueError", ds |-> ds]
            ELSE IF ~RenameOk(Rename(ds, d1), d2) THEN [err |-> "ValueError", ds |-> ds]
            ELSE [err |-> None, ds |-> Rename(Rename(ds, d1), d2)]
    ELSE [err |-> None, ds |-> ds]

\* lines 86-89: Latitude and Longitude get their standard_name
SetGeoNames(ds) ==
    [v \in DOMAIN ds |->
        IF v = "Latitude" THEN [ds[v] EXCEPT !.standard_name = "latitude"]
        ELSE IF v = "Longitude" THEN [ds[v] EXCEPT !.standard_name = "longitude"]
        ELSE ds[v]]

NoOp == [name |-> "none"]

\* VIIRSJRRFileHandler.__init__
Open ==
    /\ pc = "new"
    /\ LET r == RenameDims(file)
       IN IF r.err # None
          THEN /\ pc' = "failed"
               /\ nc' = NoDataset
               /\ op' = [name |-> "__init__", err |-> r.err]
          ELSE /\ pc' = "open"
               /\ nc' = SetGeoNames(r.ds)
               /\ op' = [name |-> "__init__", err |-> None]
    /\ UNCHANGED <<klass, filename_info, filetype_info, file, calls, reported>>

\* the start_time and end_time properties
StartTime ==
    /\ pc = "open"
    /\ op' = [name |-> "start_time", err |-> None, ret |-> filename_info.start_time]
    /\ UNCHANGED <<pc, klass, filename_info, filetype_info, file, nc, calls, reported>>

EndTime ==
    /\ pc = "open"
    /\ op' = [name |-> "end_time", err |-> None, ret |-> filename_info.end_time]
    /\ UNCHANGED <<pc, klass, filename_info, filetype_info, file, nc, calls, reported>>

\* the platform_name property; KeyError for a code the table does not hold
platform_dict ==
    (<<"N", "P", "P">> :> "Suomi-NPP") @@
    (<<"J", "P", "S", "S", "-", "1">> :> "NOAA-20") @@
    (<<"J", "0", "1">> :> "NOAA-20") @@
    (<<"J", "P", "S", "S", "-", "2">> :> "NOAA-21") @@
    (<<"J", "0", "2">> :> "NOAA-21")

\* mutant: an unknown code falls back to a default platform
platform_name_Default(info) ==
    LET platform_path == info.platform_shortname
    IN IF Upper(platform_path) \in DOMAIN platform_dict
       THEN [err |-> None, ret |-> platform_dict[Upper(platform_path)]]
       ELSE [err |-> None, ret |-> "Suomi-NPP"]

platform_name(info) ==
    LET platform_path == info.platform_shortname
    IN IF Upper(platform_path) \in DOMAIN platform_dict
       THEN [err |-> None, ret |-> platform_dict[Upper(platform_path)]]
       ELSE [err |-> "KeyError", ret |-> Absent]

\* rows_per_scans: 32 for an array 6400 columns wide, else 16
rows_per_scans(values) == IF Shape(values)[2] = 6400 THEN 32 ELSE 16

---------------------------------------------------------------------------
(* Invalid-value masking *)

\* line 123: data_arr != yaml_fill
NotFill(v, yaml_fill) == Ne(v, yaml_fill)

\* mutant: the valid range taken as exclusive of its upper end
InValidRange_Exclusive(v, valid_range) == Le(valid_range[1], v) /\ Le(v, valid_range[2] - 1)

\* line 126: (valid_range[0] <= data_arr) & (data_arr <= valid_range[1])
InValidRange(v, valid_range) == Le(valid_range[1], v) /\ Le(v, valid_range[2])

\* line 124: ds_info.get("valid_range", data_arr.attrs.get("valid_range"))
ValidRangeOf(data_arr, ds_info) ==
    IF ds_info.valid_range # <<>> THEN ds_info.valid_range ELSE data_arr.valid_range

\* VIIRSJRRFileHandler._mask_invalid. same tells whether the array returned is the
\* array passed in (the object itself) or a new array made by where()
BaseMaskInvalid(data_arr, ds_info) ==
    LET fill_value == data_arr.FillValue
        yaml_fill == ds_info.FillValue
        valid_range == ValidRangeOf(data_arr, ds_info)
    IN IF fill_value # <<>> /\ ~IsNan(fill_value[1])
       THEN [err |-> None, arr |-> data_arr, same |-> TRUE]
       ELSE IF yaml_fill # <<>>
       THEN [err |-> None, same |-> FALSE,
             arr |-> [data_arr EXCEPT !.values =
                        [r \in DOMAIN @ |-> [c \in DOMAIN @[r] |->
                            IF NotFill(@[r][c], yaml_fill[1]) THEN @[r][c] ELSE NaN]]]]
       ELSE IF valid_range # <<>>
       THEN [err |-> None, same |-> FALSE,
             arr |-> [data_arr EXCEPT !.values =
                        [r \in DOMAIN @ |-> [c \in DOMAIN @[r] |->
                            IF InValidRange(@[r][c], valid_range) THEN @[r][c] ELSE NaN]]]]
       ELSE [err |-> None, arr |-> data_arr, same |-> TRUE]

RECURSIVE BitAnd(_, _)
\* the & of two non-negative integers
BitAnd(a, b) ==
    IF a = 0 \/ b = 0 THEN 0
    ELSE (a % 2) * (b % 2) + 2 * BitAnd(a \div 2, b \div 2)

\* mutant: the water test as one inequality, without the Arctic class
BadMaskPixel_NoArctic(qf1, qf2, qf7) ==
    \/ BitAnd(qf1, 192) > 0
    \/ BitAnd(qf1, 12) > 0
    \/ BitAnd(qf1, 3) < 2
    \/ BitAnd(qf2, 32) > 0
    \/ BitAnd(qf2, 8) > 0
    \/ BitAnd(qf2, 7) <= 2
    \/ BitAnd(qf7, 12) > 8
    \/ BitAnd(qf7, 2) > 0

\* lines 206-230: TRUE when the pixel is unacceptable
BadMaskPixel(qf1, qf2, qf7) ==
    LET has_sun_glint == BitAnd(qf1, 192) > 0
        is_cloudy == BitAnd(qf1, 12) > 0
        cloud_quality == BitAnd(qf1, 3) < 2
        has_snow_or_ice == BitAnd(qf2, 32) > 0
        has_cloud_shadow == BitAnd(qf2, 8) > 0
        water_mask == BitAnd(qf2, 7)
        has_water == (water_mask <= 2) \/ (water_mask = 5)
        has_aerosols == BitAnd(qf7, 12) > 8
        adjacent_to_cloud == BitAnd(qf7, 2) > 0
    IN \/ has_sun_glint
       \/ is_cloudy
       \/ cloud_quality
       \/ has_snow_or_ice
       \/ has_cloud_shadow
       \/ has_water
       \/ has_aerosols
       \/ adjacent_to_cloud

\* mutant: the sequence tiled (np.tile) instead of its elements repeated
Repeat2_Tile(s) == s \o s

\* ndarray.repeat(2, axis=0) of a sequence: every element twice, in place
Repeat2(s) == [k \in 1..(2 * Len(s)) |-> s[(k + 1) \div 2]]

\* line 232: bad_mask.data.repeat(2, axis=1).repeat(2, axis=0)
Upscale(bad_mask) == Repeat2([r \in DOMAIN bad_mask |-> Repeat2(bad_mask[r])])

QFNames == {"QF1 Surface Reflectance", "QF2 Surface Reflectance", "QF7 Surface Reflectance"}

\* VIIRSSurfaceReflectanceWithVIHandler._get_veg_index_good_mask
\* (the three flag variables of a file share one grid)
GetVegIndexGoodMask(ds) ==
    IF ~(QFNames \subseteq DOMAIN ds) THEN [err |-> "KeyError", dims |-> <<>>, mask |-> <<>>]
    ELSE LET qf1 == ds["QF1 Surface Reflectance"]
             qf2 == ds["QF2 Surface Reflectance"]
             qf7 == ds["QF7 Surface Reflectance"]
             bad_mask == [r \in DOMAIN qf1.values |-> [c \in DOMAIN qf1.values[r] |->
                            BadMaskPixel(qf1.values[r][c], qf2.values[r][c], qf7.values[r][c])]]
             bad_mask_iband == Upscale(bad_mask)
         IN [err |-> None, dims |-> qf1.dims,
             mask |-> MapArr(bad_mask_iband, LAMBDA b : ~b)]

\* line 199: the variables the quality mask applies to
IsVegIndex(file_key) == file_key \in {"NDVI", "EVI"}

\* VIIRSSurfaceReflectanceWithVIHandler._mask_invalid
SRMaskInvalid(ds, data_arr, ds_info) ==
    LET base == BaseMaskInvalid(data_arr, ds_info)
    IN IF ds_info.file_key = Absent THEN [err |-> "KeyError", arr |-> data_arr, same |-> TRUE]
       ELSE IF ~IsVegIndex(ds_info.file_key) THEN base
       ELSE LET good == GetVegIndexGoodMask(ds)
            IN IF good.err # None THEN [err |-> good.err, arr |-> data_arr, same |-> TRUE]
               ELSE IF good.dims # base.arr.dims
               THEN [err |-> "NotModelled", arr |-> data_arr, same |-> TRUE]
               ELSE IF Shape(good.mask) # Shape(base.arr.values)
               THEN [err |-> "ValueError", arr |-> data_arr, same |-> TRUE]
               ELSE [err |-> None, same |-> FALSE,
                     arr |-> [base.arr EXCEPT !.values = Where(@, good.mask)]]

\* self._mask_invalid, dispatched on the handler's class
MaskInvalid(cls, ds, data_arr, ds_info) ==
    IF cls = SR THEN SRMaskInvalid(ds, data_arr, ds_info)
    ELSE BaseMaskInvalid(data_arr, ds_info)

---------------------------------------------------------------------------
(* get_dataset *)

\* a dataset descriptor (the info / ds_info dict of the YAML configuration)
Descriptor(name, file_key, file_type, fill, valid_range, units, standard_name) ==
    [name |-> name, file_key |-> file_key, file_type |-> file_type, FillValue |-> fill,
     valid_range |-> valid_range, units |-> units, standard_name |-> standard_name]

\* dict.get(key): None for a missing key
AttrGet(x) == IF x = Absent THEN None ELSE x

\* lines 102-104: the units of the result
ResolveUnits(info, data_arr) ==
    LET units == IF info.units # Absent THEN info.units ELSE AttrGet(data_arr.units)
    IN IF units = None \/ units = "unitless" THEN "1" ELSE units

\* line 105: whether the values are turned into percentages
ScalesToPercent(units, data_arr) ==
    units = "%" /\ AttrGet(data_arr.units) \in {"1", "unitless"}

\* VIIRSJRRFileHandler._decode_flag_meanings
DecodeFlagMeanings(flags) ==
    IF flags.kind = "str" /\ "\n" \notin Range(flags.val[1])
    THEN FlagList(Split(flags.val[1]))
    ELSE flags

\* lines 102-110 on the array _mask_invalid returned
Annotate(data_arr, info) ==
    LET units == ResolveUnits(info, data_arr)
        scaled == IF ScalesToPercent(units, data_arr)
                  THEN MapArr(data_arr.values, LAMBDA v : Mul(v, 100))
                  ELSE data_arr.values
    IN [data_arr EXCEPT
          !.values = scaled,
          !.units = units,
          !.standard_name = IF info.standard_name # Absent THEN info.standard_name ELSE @,
          !.flag_meanings = DecodeFlagMeanings(@)]

\* lines 111-113
Stamp(data_arr, platform) ==
    [data_arr EXCEPT !.platform_name = platform, !.sensor = "viirs",
                     !.rows_per_scan = <<rows_per_scans(data_arr.values)>>]

\* self.nc[key] shares its variable (values and attrs) with self.nc: what the code
\* assigns to the array _mask_invalid handed back unchanged is assigned to self.nc
StoreIfSame(ds, key, same, data_arr) ==
    IF same THEN [ds EXCEPT ![key] = data_arr] ELSE ds

\* VIIRSJRRFileHandler.get_dataset: the exception raised (or None), the array
\* returned, and self.nc after the call
get_dataset(cls, ds, fn_info, info) ==
    IF info.file_key = Absent \/ info.file_key \notin DOMAIN ds
    THEN [err |-> "KeyError", ret |-> Absent, nc |-> ds]
    ELSE LET m == MaskInvalid(cls, ds, ds[info.file_key], info)
         IN IF m.err # None THEN [err |-> m.err, ret |-> Absent, nc |-> ds]
            ELSE LET a == Annotate(m.arr, info)
                     p == platform_name(fn_info)
                 IN IF p.err # None
                    THEN [err |-> p.err, ret |-> Absent,
                          nc |-> StoreIfSame(ds, info.file_key, m.same, a)]
                    ELSE [err |-> None, ret |-> Stamp(a, p.ret),
                          nc |-> StoreIfSame(ds, info.file_key, m.same, Stamp(a, p.ret))]

GetDataset(info) ==
    /\ pc = "open"
    /\ calls < MaxCalls
    /\ LET r == get_dataset(klass, nc, filename_info, info)
       IN /\ op' = [name |-> "get_dataset", info |-> info, err |-> r.err, ret |-> r.ret,
                    cls |-> klass]
          /\ nc' = r.nc
    /\ calls' = calls + 1
    /\ UNCHANGED <<pc, klass, filename_info, filetype_info, file, reported>>

---------------------------------------------------------------------------
(* available_datasets *)

PyTrue == "True"
PyFalse == "False"

Pair(is_avail, ds_info) == [avail |-> is_avail, info |-> ds_info]

\* BaseFileHandler.file_type_matches: True for the handler's own file type, else None
file_type_matches(ft_info, ds_ftype) ==
    IF ft_info.file_type = ds_ftype THEN PyTrue ELSE None

\* line 190
FileKeyOf(ds_info) == IF ds_info.file_key # Absent THEN ds_info.file_key ELSE ds_info.name

\* lines 181-191: what one turn of the loop yields
YieldsFor(ft_info, ds, is_avail, ds_info) ==
    IF is_avail # None THEN <<Pair(is_avail, ds_info)>>
    ELSE (IF file_type_matches(ft_info, ds_info.file_type) = None
          THEN <<Pair(None, ds_info)>> ELSE <<>>)
         \o <<Pair(IF FileKeyOf(ds_info) \in DOMAIN ds THEN PyTrue ELSE PyFalse, ds_info)>>

RECURSIVE available_datasets(_, _, _)
\* VIIRSJRRFileHandler.available_datasets, as the sequence the generator yields
available_datasets(ft_info, ds, configured_datasets) ==
    IF configured_datasets = <<>> THEN <<>>
    ELSE YieldsFor(ft_info, ds, Head(configured_datasets).avail, Head(configured_datasets).info)
         \o available_datasets(ft_info, ds, Tail(configured_datasets))

AvailableDatasets(configured_datasets) ==
    /\ pc = "open"
    /\ LET out == available_datasets(filetype_info, nc, configured_datasets)
       IN /\ op' = [name |-> "available_datasets", in |-> configured_datasets, out |-> out]
          /\ reported' = reported \cup
                {d \in {out[i].info : i \in DOMAIN out} :
                    /\ \E i \in DOMAIN out : out[i] = Pair(PyTrue, d)
                    /\ \E j \in DOMAIN configured_datasets :
                          configured_datasets[j] = Pair(None, d)}
    /\ UNCHANGED <<pc, klass, filename_info, filetype_info, file, nc, calls>>

---------------------------------------------------------------------------
(* Files *)

FineH == 2 * GridH
FineW == 2 * GridW

\* value arrays of h rows and w columns
Ramp(h, w) == [r \in 1..h |-> [c \in 1..w |-> (r - 1) * w + c]]
Holes(h, w) == [r \in 1..h |-> [c \in 1..w |-> IF (r + c) % 2 = 0 THEN NaN ELSE 1 + ((r + c) % 3)]]
Flat(h, w, v) == [r \in 1..h |-> [c \in 1..w |-> v]]

DimsPlain == <<"Rows", "Columns">>
Dims375 == <<"Along_Track_375m", "Along_Scan_375m">>
Dims750 == <<"Along_Track_750m", "Along_Scan_750m">>

Geo(dims, h, w) ==
    ("Latitude" :> Variable(dims, Ramp(h, w), "degrees_north", <<>>, <<>>, NoFlags)) @@
    ("Longitude" :> Variable(dims, Ramp(h, w), "degrees_east", <<>>, <<>>, NoFlags))

\* a cloud-mask or aerosol file: one grid, plain dimension names
PlainFile(dims, data) == ("CloudMask" :> [data EXCEPT !.dims = dims]) @@ Geo(dims, FineH, FineW)

\* a surface-reflectance file: the 375 m variables and the 750 m quality flags
SurfReflFile(dimsI, dimsM, data, qf1, qf2, qf7) ==
    ("NDVI" :> [data EXCEPT !.dims = dimsI]) @@ ("EVI" :> [data EXCEPT !.dims = dimsI]) @@
    ("375m Surface Reflectance Band I1" :> [data EXCEPT !.dims = dimsI]) @@
    ("QF1 Surface Reflectance" :> Variable(dimsM, qf1, Absent, <<>>, <<>>, NoFlags)) @@
    ("QF2 Surface Reflectance" :> Variable(dimsM, qf2, Absent, <<>>, <<>>, NoFlags)) @@
    ("QF7 Surface Reflectance" :> Variable(dimsM, qf7, Absent, <<>>, <<>>, NoFlags))

\* quality flags of a pixel the mask accepts: confident clear, land, low aerosol
GoodQF == <<2, 3, 0>>

DefaultData ==
    Variable(<<>>, Ramp(FineH, FineW), "1", <<>>, <<>>, FlagStr(<<"a", " ", "b">>))

GoodFlags(k) == Flat(GridH, GridW, GoodQF[k])

\* self.nc right after __init__ returned, for a file whose open succeeds
Opened(f) == SetGeoNames(RenameDims(f).ds)

---------------------------------------------------------------------------
(* Spec: the life of a handler, over the files' dimension conventions and the    *)
(* platform codes of the file name                                              *)

PlatformCodes ==
    { <<"N", "P", "P">>, <<"n", "p", "p">>, <<"j", "0", "1">>, <<"J", "P", "S", "S", "-", "1">>,
      <<"j", "p", "s", "s", "-", "2">>, <<"J", "0", "2">>,
      <<"J", "0", "3">>, <<"g", "1", "6">>, <<>> }

\* the codes of PlatformCodes the specification calls known, whatever their case
KnownPlatformCodes ==
    { <<"N", "P", "P">>, <<"n", "p", "p">>, <<"j", "0", "1">>, <<"J", "P", "S", "S", "-", "1">>,
      <<"j", "p", "s", "s", "-", "2">>, <<"J", "0", "2">> }

OpenFiles ==
    { PlainFile(DimsPlain, DefaultData),
      PlainFile(<<"rows", "columns">>, DefaultData),
      SurfReflFile(Dims375, Dims750, DefaultData, GoodFlags(1), GoodFlags(2), GoodFlags(3)),
      SurfReflFile(Dims375, <<"y", "x">>, DefaultData, GoodFlags(1), GoodFlags(2), GoodFlags(3)),
      PlainFile(<<"y", "x">>, DefaultData) }

FileNameInfo(code) == [platform_shortname |-> code, start_time |-> 1, end_time |-> 2]

OpenInfos ==
    { Descriptor("cloud_mask", "CloudMask", "jrr", <<>>, <<>>, Absent, Absent),
      Descriptor("NDVI", "NDVI", "jrr", <<>>, <<>>, "%", Absent) }

OpenCfgs == { <<>> } \cup { <<Pair(None, d)>> : d \in OpenInfos }

Init ==
    /\ pc = "new"
    /\ klass \in {BASE, SR}
    /\ filename_info \in {FileNameInfo(code) : code \in PlatformCodes}
    /\ filetype_info = [file_type |-> "jrr"]
    /\ file \in OpenFiles
    /\ nc = NoDataset
    /\ op = NoOp
    /\ calls = 0
    /\ reported = {}

Next ==
    \/ Open
    \/ StartTime
    \/ EndTime
    \/ \E cfg \in OpenCfgs : AvailableDatasets(cfg)
    \/ \E info \in OpenInfos : GetDataset(info)

Spec == Init /\ [][Next]_vars

---------------------------------------------------------------------------
(* Claims checked under Spec *)

SourceDimNames == Range(DimsPlain) \cup Range(Dims375) \cup Range(Dims750)

\* the two dimension-naming conventions the specification knows
PlainConvention(f) == Dims(f) = Range(DimsPlain)
DualConvention(f) == Dims(f) = Range(Dims375) \cup Range(Dims750)

UnknownPlatform == filename_info.platform_shortname \notin KnownPlatformCodes

\* C2: once __init__ has run on a file of either known dimension-naming convention,
\* the open has succeeded, no source spatial dimension name remains and every
\* dimension of self.nc is named x or y.
C2_DimsRenamed ==
    (pc # "new" /\ (PlainConvention(file) \/ DualConvention(file))) =>
        /\ pc = "open"
        /\ Dims(nc) \cap SourceDimNames = {}
        /\ Dims(nc) \subseteq {"x", "y"}

C3_Witness_Available ==
    /\ UnknownPlatform /\ pc = "open"
    /\ op.name = "available_datasets" /\ Len(op.out) > 0

---------------------------------------------------------------------------
(* SpecAvail: available_datasets and the get_dataset calls that follow it *)

\* descriptors whose key is in the file or not, with and without file_key, of the
\* handler's file type or of another
AvailDescriptors ==
    { Descriptor("cloud_mask", "CloudMask", "jrr", <<>>, <<>>, Absent, Absent),
      Descriptor("CloudMask", Absent, "jrr", <<>>, <<>>, Absent, Absent),
      Descriptor("cloud_mask", Absent, "jrr", <<>>, <<>>, Absent, Absent),
      Descriptor("cloud_mask", Absent, "other", <<>>, <<>>, Absent, Absent),
      Descriptor("cloud_mask", "CloudMask", "other", <<>>, <<>>, Absent, Absent) }

\* pairs no handler has resolved yet, and pairs an earlier handler resolved
AvailPairs ==
    { Pair(None, d) : d \in AvailDescriptors } \cup
    { Pair(a, Descriptor("cloud_mask", Absent, "other", <<>>, <<>>, Absent, Absent)) :
        a \in {PyTrue, PyFalse} }

\* the sequences of configured datasets of length at most n
CfgsUpTo(n) == UNION { [1..k -> AvailPairs] : k \in 0..n }

InitAvail ==
    /\ pc = "new"
    /\ klass \in {BASE, SR}
    /\ filename_info = FileNameInfo(<<"j", "0", "1">>)
    /\ filetype_info = [file_type |-> "jrr"]
    /\ file = PlainFile(DimsPlain, DefaultData)
    /\ nc = NoDataset
    /\ op = NoOp
    /\ calls = 0
    /\ reported = {}

NextAvail ==
    \/ Open
    \/ \E cfg \in CfgsUpTo(MaxCfg) : AvailableDatasets(cfg)
    \/ \E info \in AvailDescriptors : GetDataset(info)

SpecAvail == InitAvail /\ [][NextAvail]_vars

\* the availability the specification gives for one input pair
ExpectedAvail(p) ==
    IF p.avail # None THEN p.avail
    ELSE IF p.info.file_type # filetype_info.file_type THEN None
    ELSE IF (IF p.info.file_key = Absent THEN p.info.name ELSE p.info.file_key) \in DOMAIN nc
         THEN PyTrue ELSE PyFalse

\* C1: available_datasets yields exactly one pair per input pair, in the input
\* order, each with the descriptor of the input pair at its position.
C1_OnePairPerInput ==
    op.name = "available_datasets" =>
        /\ Len(op.out) = Len(op.in)
        /\ \A i \in DOMAIN op.in : i \in DOMAIN op.out /\ op.out[i].info = op.in[i].info

\* C5: every pair available_datasets reports for a descriptor carries the
\* availability the specification gives for an input pair of that descriptor:
\* the input availability when non-null, None for a file type that does not match
\* (never True or False), else True or False as the key is or is not in the file.
C5_ReportedAvailability ==
    op.name = "available_datasets" =>
        \A k \in DOMAIN op.out :
            \E i \in DOMAIN op.in :
                op.in[i].info = op.out[k].info /\ op.out[k].avail = ExpectedAvail(op.in[i])

\* C4: get_dataset with a descriptor that available_datasets of the same handler
\* reported as available does not fail with a lookup error.
C4_AvailableThenGettable ==
    (op.name = "get_dataset" /\ op.info \in reported) => op.err # "KeyError"

---------------------------------------------------------------------------
(* SpecGet: get_dataset calls on a surface-reflectance file, over the units, the  *)
(* fill value, the valid range and the flag meanings of its 375 m variables     *)

BandI1 == "375m Surface Reflectance Band I1"

GetData ==
    { Variable(<<>>, Ramp(FineH, FineW), units, mask[2], mask[1], flags) :
        units \in {Absent, "1", "unitless", "%"},
        mask \in { <<<<>>, <<>>>>, <<<<3>>, <<>>>>, <<<<NaN>>, <<2, 5>>>> },
        flags \in {NoFlags, FlagStr(<<"a", " ", "b">>), FlagStr(<<"a", "\n", "b">>)} }

GetInfos ==
    { Descriptor("d", file_key, "jrr", fill, <<>>, units, standard_name) :
        file_key \in {"NDVI", BandI1}, fill \in {<<>>, <<2>>},
        units \in {Absent, None, "%", "K"}, standard_name \in {Absent, "sn"} }

InitGet ==
    /\ pc = "new"
    /\ klass \in {BASE, SR}
    /\ filename_info = FileNameInfo(<<"j", "0", "1">>)
    /\ filetype_info = [file_type |-> "jrr"]
    /\ file \in { SurfReflFile(Dims375, Dims750, data, GoodFlags(1), GoodFlags(2), GoodFlags(3)) :
                    data \in GetData }
    /\ nc = NoDataset
    /\ op = NoOp
    /\ calls = 0
    /\ reported = {}

NextGet ==
    \/ Open
    \/ \E info \in GetInfos : GetDataset(info)

SpecGet == InitGet /\ [][NextGet]_vars

\* the units and the values the specification gives for a descriptor and the
\* variable src of the file
ExpectedUnits(info, src) ==
    LET resolved == IF info.units # Absent THEN info.units
                    ELSE IF src.units = Absent THEN None ELSE src.units
    IN IF resolved \in {None, "unitless"} THEN "1" ELSE resolved

ExpectedValues(cls, info, src) ==
    LET masked == MaskInvalid(cls, Opened(file), src, info).arr.values
    IN IF ExpectedUnits(info, src) = "%" /\ src.units \in {"1", "unitless"}
       THEN [r \in DOMAIN masked |-> [c \in DOMAIN masked[r] |->
                IF masked[r][c] = NaN THEN NaN ELSE 100 * masked[r][c]]]
       ELSE masked

ResolvedAsSpecified ==
    LET src == Opened(file)[op.info.file_key]
    IN /\ op.ret.units = ExpectedUnits(op.info, src)
       /\ op.ret.values = ExpectedValues(op.cls, op.info, src)

\* C7: the array get_dataset returns has the descriptor's units when given, else
\* the source attribute, with None and "unitless" turned into "1", and holds the
\* masked source values, times 100 exactly when the final unit is "%" and the
\* source unit was "1" or "unitless".
C7_UnitsAndScaling == (op.name = "get_dataset" /\ op.err = None) => ResolvedAsSpecified

\* the same for the first get_dataset call on a handler only
FirstCallResolvedAsSpecified ==
    (op.name = "get_dataset" /\ op.err = None /\ calls = 1) => ResolvedAsSpecified

\* C10: the values and the units, standard_name and flag_meanings attributes of
\* every variable of self.nc are what they were right after open.
C10_HandlerViewUnchanged ==
    pc = "open" =>
        \A v \in DOMAIN nc :
            /\ nc[v].values = Opened(file)[v].values
            /\ nc[v].units = Opened(file)[v].units
            /\ nc[v].standard_name = Opened(file)[v].standard_name
            /\ nc[v].flag_meanings = Opened(file)[v].flag_meanings

---------------------------------------------------------------------------
(* The masking functions called on their own *)

\* self._mask_invalid(self.nc[key], ds_info), as get_dataset calls it (line 101)
MaskInvalidCall(ds_info) ==
    /\ pc = "open"
    /\ ds_info.file_key \in DOMAIN nc
    /\ LET m == MaskInvalid(klass, nc, nc[ds_info.file_key], ds_info)
       IN op' = [name |-> "_mask_invalid", cls |-> klass, info |-> ds_info,
                 data |-> nc[ds_info.file_key], err |-> m.err, arr |-> m.arr, same |-> m.same]
    /\ UNCHANGED <<pc, klass, filename_info, filetype_info, file, nc, calls, reported>>

\* self._get_veg_index_good_mask()
GoodMaskCall ==
    /\ pc = "open"
    /\ klass = SR
    /\ LET g == GetVegIndexGoodMask(nc)
       IN op' = [name |-> "_get_veg_index_good_mask", err |-> g.err, mask |-> g.mask]
    /\ UNCHANGED <<pc, klass, filename_info, filetype_info, file, nc, calls, reported>>

---------------------------------------------------------------------------
(* SpecMask: _mask_invalid of both classes over arrays, encodings, valid ranges,  *)
(* descriptors and quality-flag grids                                           *)

\* quality flags of a pixel with sun glint and of a pixel over the Arctic
BadQFs == { <<194, 3, 0>>, <<2, 5, 0>> }

\* the grids of flag triples: all pixels good, one pixel bad, or all pixels bad
QFGrids ==
    { [p \in (1..GridH) \X (1..GridW) |-> GoodQF] } \cup
    { [p \in (1..GridH) \X (1..GridW) |-> IF p = q THEN b ELSE GoodQF] :
        q \in (1..GridH) \X (1..GridW), b \in BadQFs } \cup
    { [p \in (1..GridH) \X (1..GridW) |-> b] : b \in BadQFs }

FlagGrid(g, k) == [r \in 1..GridH |-> [c \in 1..GridW |-> g[<<r, c>>][k]]]

MaskData ==
    { Variable(<<>>, values, "1", valid_range, fill, NoFlags) :
        values \in {Ramp(FineH, FineW), Holes(FineH, FineW)},
        fill \in {<<>>, <<NaN>>, <<3>>}, valid_range \in {<<>>, <<2, 5>>} }

MaskInfos ==
    { Descriptor("d", file_key, "jrr", fill, valid_range, Absent, Absent) :
        file_key \in {"NDVI", "EVI", BandI1}, fill \in {<<>>, <<2>>, <<NaN>>},
        valid_range \in {<<>>, <<3, 6>>} }

InitMask ==
    /\ pc = "new"
    /\ klass \in {BASE, SR}
    /\ filename_info = FileNameInfo(<<"j", "0", "1">>)
    /\ filetype_info = [file_type |-> "jrr"]
    /\ file \in { SurfReflFile(Dims375, Dims750, data,
                               FlagGrid(g, 1), FlagGrid(g, 2), FlagGrid(g, 3)) :
                    data \in MaskData, g \in QFGrids }
    /\ nc = NoDataset
    /\ op = NoOp
    /\ calls = 0
    /\ reported = {}

NextMask ==
    \/ Open
    \/ \E ds_info \in MaskInfos : MaskInvalidCall(ds_info)

SpecMask == InitMask /\ [][NextMask]_vars

\* an element is masked when it is NaN in the result
NumericFill(data_arr) == data_arr.FillValue # <<>> /\ data_arr.FillValue[1] # NaN

\* C6: the base _mask_invalid returns the array unmasked when its encoding has a
\* non-NaN fill value; else masks exactly the elements equal to the descriptor's
\* _FillValue when there is one; else masks exactly the elements outside the
\* inclusive valid range (the descriptor's, else the attribute) when one is known;
\* else masks nothing. The shape never changes.
C6_MaskingPriority ==
    (op.name = "_mask_invalid" /\ op.cls = BASE) =>
        LET d == op.data.values
            res == op.arr.values
            yaml_fill == op.info.FillValue
            known == IF op.info.valid_range # <<>> THEN op.info.valid_range
                     ELSE op.data.valid_range
        IN /\ op.err = None
           /\ Shape(res) = Shape(d)
           /\ \A r \in DOMAIN d : \A c \in DOMAIN d[r] :
                res[r][c] =
                    IF NumericFill(op.data) THEN d[r][c]
                    ELSE IF yaml_fill # <<>>
                    THEN (IF d[r][c] = yaml_fill[1] THEN NaN ELSE d[r][c])
                    ELSE IF known # <<>>
                    THEN (IF d[r][c] = NaN \/ d[r][c] < known[1] \/ d[r][c] > known[2]
                          THEN NaN ELSE d[r][c])
                    ELSE d[r][c]

\* the encoding has a numeric fill value, the descriptor gives a fill value and a
\* valid range, and an element equal to the descriptor's fill value and outside
\* its range is returned unmasked
C6_Witness ==
    /\ op.name = "_mask_invalid" /\ op.cls = BASE
    /\ NumericFill(op.data)
    /\ op.info.FillValue = <<2>> /\ op.info.valid_range = <<3, 6>>
    /\ \E r \in DOMAIN op.data.values : \E c \in DOMAIN op.data.values[r] :
            op.data.values[r][c] = 2 /\ op.arr.values[r][c] = 2

\* without an encoded fill value the descriptor's fill value masks an element that
\* both valid ranges would keep
C6_Witness_Fill ==
    /\ op.name = "_mask_invalid" /\ op.cls = BASE
    /\ ~NumericFill(op.data)
    /\ op.info.FillValue = <<2>> /\ op.info.valid_range = <<>> /\ op.data.valid_range = <<2, 5>>
    /\ \E r \in DOMAIN op.data.values : \E c \in DOMAIN op.data.values[r] :
            op.data.values[r][c] = 2 /\ op.arr.values[r][c] = NaN

\* the coarse pixel (a, b), counted from 0, is bad
CoarseBad(ds, a, b) ==
    BadMaskPixel(ds["QF1 Surface Reflectance"].values[a + 1][b + 1],
                 ds["QF2 Surface Reflectance"].values[a + 1][b + 1],
                 ds["QF7 Surface Reflectance"].values[a + 1][b + 1])

\* C9: _mask_invalid of the surface-reflectance handler returns the base policy's
\* result for a variable other than NDVI and EVI; for NDVI and EVI the element at
\* (row i, column j) is masked iff the base policy masked it or the coarse pixel
\* (i div 2, j div 2) is bad, and is the base policy's element otherwise.
C9_QualityMaskOnVegIndex ==
    (op.name = "_mask_invalid" /\ op.cls = SR) =>
        LET base == BaseMaskInvalid(op.data, op.info).arr.values
            res == op.arr.values
        IN /\ op.err = None
           /\ Shape(res) = Shape(base)
           /\ \A i \in 0..(Len(base) - 1) : \A j \in 0..(Len(base[1]) - 1) :
                res[i + 1][j + 1] =
                    IF op.info.file_key \in {"NDVI", "EVI"} /\ CoarseBad(nc, i \div 2, j \div 2)
                    THEN NaN ELSE base[i + 1][j + 1]

\* an EVI call where a bad coarse pixel masks its block only: the element next to
\* the block in the same row is kept
C9_Witness ==
    /\ op.name = "_mask_invalid" /\ op.cls = SR /\ op.info.file_key = "EVI"
    /\ CoarseBad(nc, 0, 0) /\ ~CoarseBad(nc, 0, 1)
    /\ op.data.values[1][2] # NaN /\ op.arr.values[1][2] = NaN
    /\ op.arr.values[2][3] # NaN

---------------------------------------------------------------------------
(* SpecQF: the quality mask of one coarse pixel over its three flags *)

QFBytes == 0..MaxQF

QFInteresting == {0, 2, 3, 5, 8, 12, 32, 192}

QFTriples ==
    (QFBytes \X {3, 4} \X {0, 8}) \cup ({2, 3} \X QFBytes \X {0, 8})
        \cup ({2, 3} \X {3, 4} \X QFBytes)
        \cup (QFInteresting \X QFInteresting \X QFInteresting)

\* the 375 m variable over one coarse pixel
OnePixelData == Variable(<<>>, Ramp(2, 2), "1", <<>>, <<>>, NoFlags)

InitQF ==
    /\ pc = "new"
    /\ klass = SR
    /\ filename_info = FileNameInfo(<<"j", "0", "1">>)
    /\ filetype_info = [file_type |-> "jrr"]
    /\ file \in { SurfReflFile(Dims375, Dims750, OnePixelData,
                               <<<<q[1]>>>>, <<<<q[2]>>>>, <<<<q[3]>>>>) : q \in QFTriples }
    /\ nc = NoDataset
    /\ op = NoOp
    /\ calls = 0
    /\ reported = {}

NextQF ==
    \/ Open
    \/ GoodMaskCall

SpecQF == InitQF /\ [][NextQF]_vars

\* the eight conditions on the bits of the flags, by division
Bits(q, low, n) == (q \div (2 ^ low)) % (2 ^ n)

EightConditions(q1, q2, q7) ==
    \/ Bits(q1, 6, 2) # 0
    \/ Bits(q1, 2, 2) # 0
    \/ Bits(q1, 0, 2) < 2
    \/ Bits(q2, 5, 1) # 0
    \/ Bits(q2, 3, 1) # 0
    \/ Bits(q2, 0, 3) <= 2
    \/ Bits(q2, 0, 3) = 5
    \/ 4 * Bits(q7, 2, 2) > 8
    \/ Bits(q7, 1, 1) # 0

\* C8: a coarse pixel is bad (its 2x2 block of the good mask is False) iff one of
\* the eight conditions holds for its QF1, QF2 and QF7.
C8_BadIffAnyCondition ==
    op.name = "_get_veg_index_good_mask" =>
        /\ op.err = None
        /\ \A r \in 1..2 : \A c \in 1..2 :
              op.mask[r][c] = ~EightConditions(nc["QF1 Surface Reflectance"].values[1][1],
                                               nc["QF2 Surface Reflectance"].values[1][1],
                                               nc["QF7 Surface Reflectance"].values[1][1])

\* a pixel with the sun-glint bits set and every other flag good is bad
C8_Witness ==
    /\ op.name = "_get_veg_index_good_mask"
    /\ nc["QF1 Surface Reflectance"].values[1][1] = 194
    /\ nc["QF2 Surface Reflectance"].values[1][1] = 3
    /\ nc["QF7 Surface Reflectance"].values[1][1] = 0
    /\ op.mask = <<<<FALSE, FALSE>>, <<FALSE, FALSE>>>>

\* a pixel for which none of the eight conditions holds is good
C8_Witness_Good ==
    /\ op.name = "_get_veg_index_good_mask"
    /\ nc["QF1 Surface Reflectance"].values[1][1] = 2
    /\ op.mask = <<<<TRUE, TRUE>>, <<TRUE, TRUE>>>>

====
